---- MODULE Spec2Model ----
(***************************************************************************)
(* Model of the Oak enclave driver, src/oak/oak_driver.cc (main).          *)
(*                                                                         *)
(* The driver is one sequential process.  Its state is the position in    *)
(* main (pc), the locals of main (expressions, the loop position, status,  *)
(* output), what it has written (cout, the fatal log line) and the calls   *)
(* it has made on the Asylo API (calls).  The enclave manager, the enclave *)
(* client and the enclave are outside the file: every call on them returns *)
(* a nondeterministically chosen result.                                   *)
(*                                                                         *)
(* Strings are sequences of one-character strings; "" is << >>.            *)
(***************************************************************************)
EXTENDS Integers, Sequences, FiniteSets, TLC

\* ---------------------------------------------------------------- bounds
MaxFlagLen == 3

\* ------------------------------------------------------------ inputs
\* Characters a --expressions flag is made of; "," is the delimiter.
Chars == {"a", "b", ","}

RECURSIVE StringsUpTo(_)
StringsUpTo(n) ==
  IF n = 0 THEN {<< >>}
  ELSE LET shorter == StringsUpTo(n - 1)
       IN  shorter \cup {Append(s, c) : s \in {t \in shorter : Len(t) = n - 1}, c \in Chars}

\* Values of FLAGS_expressions (default "").
FlagValues == StringsUpTo(MaxFlagLen)

\* FLAGS_enclave_path, at its default.
FLAGS_enclave_path == << >>

\* The script main installs.
lisp_script == <<"f", "i", "b">>

\* Payload strings an enclave may put in evaluate_output.
OutputData == {<< >>, <<"x">>}

\* An EnclaveOutput: the set of extensions that are set, and the
\* output_data of evaluate_output when it is set.
EmptyOutput == [ext |-> {}, output_data |-> << >>]
Outputs == {EmptyOutput} \cup
           {[ext |-> {"evaluate_output"}, output_data |-> d] : d \in OutputData}

\* ------------------------------------------------------------ pure parts
\* absl::StrSplit(s, ','): the pieces between delimiters, empty pieces kept.
\* Variant: empty pieces are dropped (absl::SkipEmpty).
RECURSIVE StrSplit_SkipEmpty(_)
StrSplit_SkipEmpty(s) ==
  IF \A i \in 1..Len(s) : s[i] # ","
  THEN IF s = << >> THEN << >> ELSE <<s>>
  ELSE LET i == CHOOSE k \in 1..Len(s) :
                  s[k] = "," /\ \A j \in 1..(k - 1) : s[j] # ","
       IN  (IF i = 1 THEN << >> ELSE <<SubSeq(s, 1, i - 1)>>)
             \o StrSplit_SkipEmpty(SubSeq(s, i + 1, Len(s)))
RECURSIVE StrSplit(_)
StrSplit(s) ==
  IF \A i \in 1..Len(s) : s[i] # ","
  THEN <<s>>
  ELSE LET i == CHOOSE k \in 1..Len(s) :
                  s[k] = "," /\ \A j \in 1..(k - 1) : s[j] # ","
       IN  <<SubSeq(s, 1, i - 1)>> \o StrSplit(SubSeq(s, i + 1, Len(s)))

\* output.GetExtension(oak::evaluate_output).output_data(): the payload of
\* the extension when it is set, the default instance's "" when it is not.
GetExtensionOutputData(out) ==
  IF "evaluate_output" \in out.ext THEN out.output_data ELSE << >>

\* Where main goes after each test of a result.  LOG(QFATAL) ends the
\* process at once.
\* Variant: the flag is not validated.
ValidateNext_NoCheck(f) == "split"
ValidateNext(f) == IF f = << >> THEN "aborted" ELSE "split"
ManagerNext(st) == IF st = "ok" THEN "load" ELSE "aborted"
\* Variant: a failed load is logged and the run goes on.
CheckLoadNext_Continue(st) == "get_client"
CheckLoadNext(st) == IF st = "ok" THEN "get_client" ELSE "aborted"
\* Variant: a failed program call is logged and the run goes on.
CheckProgramNext_Continue(st) == "for"
CheckProgramNext(st) == IF st = "ok" THEN "for" ELSE "aborted"
\* Variant: a failed evaluation is sent again.
CheckEvaluateNext_Retry(st) == IF st = "ok" THEN "for" ELSE "evaluate"
\* Variant: a failed evaluation is skipped and the loop goes on.
CheckEvaluateNext_Skip(st) == "for"
CheckEvaluateNext(st) == IF st = "ok" THEN "for" ELSE "aborted"
\* Variant: a failed teardown is tried again.
CheckDestroyNext_Retry(st) == IF st = "ok" THEN "done" ELSE "destroy"
\* Variant: the result of the teardown is not looked at.
CheckDestroyNext_Swallow(st) == "done"
CheckDestroyNext(st) == IF st = "ok" THEN "done" ELSE "aborted"

\* The fatal lines of main.
MustSupplyExpressions == "Must supply a non-empty list of expressions"
ManagerUnavailable == "EnclaveManager unavailable"
LoadFailed == "Load failed"
EnterAndRunFailed == "EnterAndRun failed"
DestroyFailed == "Destroy failed"

\* ------------------------------------------------------------ state
VARIABLES
  FLAGS_expressions, \* the --expressions flag
  expressions,       \* std::vector<std::string> expressions
  next,              \* position of the range-for in expressions (1-based)
  pc,                \* position in main
  status,            \* asylo::Status status: "none" before the first call
  output,            \* the EnclaveOutput of the latest EnterAndRun
  state,             \* lifecycle of the enclave "oak_enclave"
  calls,             \* the Asylo calls made so far, in order
  cout,              \* lines written to std::cout
  fatal,             \* the LOG(QFATAL) line, "none" while there is none
  context            \* the requests the enclave has executed, in order

vars == <<FLAGS_expressions, expressions, next, pc, status, output, state,
          calls, cout, fatal, context>>

Statuses == {"ok", "error"}

\* One call on the Asylo API: the function, the extensions set on the
\* message passed, the string it carries, the expression position (0 when
\* it is not an evaluation), the enclave's lifecycle state when the call
\* was made, and whether it returned OK.
Call(op, ext, arg, n, ok) ==
  [op |-> op, ext |-> ext, arg |-> arg, n |-> n, st |-> state, ok |-> ok,
   seen |-> context]

\* The extensions set on the EnclaveInput of the program call and of an
\* evaluation: each is a fresh message of its own block.
initialise_input == {"initialise_input"}
\* Variant: one EnclaveInput is declared before the loop and reused, so
\* the script extension is still set on every evaluation.
evaluate_input_Reused == {"initialise_input", "evaluate_input"}
evaluate_input == {"evaluate_input"}

\* What an EnterAndRun leaves in the enclave: a call that returned OK has
\* been executed; of a call that returned an error nothing is known.
Executed(ext, n, st) ==
  IF st = "ok" THEN {Append(context, [ext |-> ext, n |-> n])}
  ELSE {context, Append(context, [ext |-> ext, n |-> n])}

Init ==
  /\ FLAGS_expressions \in FlagValues
  /\ expressions = << >>
  /\ next = 1
  /\ pc = "validate"
  /\ status = "none"
  /\ output = EmptyOutput
  /\ state = "Unloaded"
  /\ calls = << >>
  /\ cout = << >>
  /\ fatal = "none"
  /\ context = << >>

\* ------------------------------------------------------------ steps of main
\* if (FLAGS_expressions.empty()) LOG(QFATAL)
ValidateFlags ==
  /\ pc = "validate"
  /\ pc' = ValidateNext(FLAGS_expressions)
  /\ fatal' = IF pc' = "aborted" THEN MustSupplyExpressions ELSE fatal
  /\ UNCHANGED <<context, FLAGS_expressions, expressions, next, status, output, state,
                 calls, cout>>

\* expressions = absl::StrSplit(FLAGS_expressions, ',')
SplitExpressions ==
  /\ pc = "split"
  /\ expressions' = StrSplit(FLAGS_expressions)
  /\ pc' = "manager"
  /\ UNCHANGED <<context, FLAGS_expressions, next, status, output, state, calls, cout,
                 fatal>>

\* EnclaveManager::Configure, EnclaveManager::Instance and the test of
\* manager_result.
GetManager ==
  /\ pc = "manager"
  /\ \E st \in Statuses :
       /\ calls' = calls \o <<Call("Configure", {}, << >>, 0, TRUE),
                              Call("Instance", {}, << >>, 0, st = "ok")>>
       /\ pc' = ManagerNext(st)
       /\ fatal' = IF pc' = "aborted" THEN ManagerUnavailable ELSE fatal
  /\ UNCHANGED <<context, FLAGS_expressions, expressions, next, status, output, state,
                 cout>>

\* std::cout << "Loading"; status = manager->LoadEnclave("oak_enclave", loader)
LoadEnclave ==
  /\ pc = "load"
  /\ cout' = Append(cout, [line |-> "Loading", data |-> FLAGS_enclave_path])
  /\ \E st \in Statuses :
       /\ status' = st
       /\ calls' = Append(calls, Call("LoadEnclave", {}, FLAGS_enclave_path, 0,
                                      st = "ok"))
       /\ state' = IF st = "ok" THEN "Loaded" ELSE state
  /\ pc' = "load_check"
  /\ UNCHANGED <<context, FLAGS_expressions, expressions, next, output, fatal>>

\* if (!status.ok()) LOG(QFATAL) << "Load ... failed"
CheckLoad ==
  /\ pc = "load_check"
  /\ pc' = CheckLoadNext(status)
  /\ fatal' = IF pc' = "aborted" THEN LoadFailed ELSE fatal
  /\ UNCHANGED <<context, FLAGS_expressions, expressions, next, status, output, state,
                 calls, cout>>

\* client = manager->GetClient("oak_enclave")
GetClient ==
  /\ pc = "get_client"
  /\ calls' = Append(calls, Call("GetClient", {}, << >>, 0, TRUE))
  /\ pc' = "program"
  /\ UNCHANGED <<context, FLAGS_expressions, expressions, next, status, output, state,
                 cout, fatal>>

\* input.MutableExtension(oak::initialise_input)->set_lisp_script(...);
\* status = client->EnterAndRun(input, &output)
ProgramEnclave ==
  /\ pc = "program"
  /\ \E st \in Statuses, out \in Outputs :
       /\ status' = st
       /\ output' = out
       /\ calls' = Append(calls, Call("EnterAndRun", initialise_input,
                                      lisp_script, 0, st = "ok"))
       /\ state' = IF st = "ok" THEN "Programmed" ELSE state
       /\ context' \in Executed(initialise_input, 0, st)
  /\ pc' = "program_check"
  /\ UNCHANGED <<FLAGS_expressions, expressions, next, cout, fatal>>

\* if (!status.ok()) LOG(QFATAL) << "EnterAndRun failed"
CheckProgram ==
  /\ pc = "program_check"
  /\ pc' = CheckProgramNext(status)
  /\ fatal' = IF pc' = "aborted" THEN EnterAndRunFailed ELSE fatal
  /\ UNCHANGED <<context, FLAGS_expressions, expressions, next, status, output, state,
                 calls, cout>>

\* for (const auto &expression : expressions): the test of the iterator
ForExpression ==
  /\ pc = "for"
  /\ pc' = IF next <= Len(expressions) THEN "evaluate" ELSE "destroy"
  /\ UNCHANGED <<context, FLAGS_expressions, expressions, next, status, output, state,
                 calls, cout, fatal>>

\* input.MutableExtension(oak::evaluate_input)->set_input_data(expression);
\* status = client->EnterAndRun(input, &output)
EvaluateExpression ==
  /\ pc = "evaluate"
  /\ \E st \in Statuses, out \in Outputs :
       /\ status' = st
       /\ output' = out
       /\ calls' = Append(calls, Call("EnterAndRun", evaluate_input,
                                      expressions[next], next, st = "ok"))
       /\ context' \in Executed(evaluate_input, next, st)
  /\ pc' = "evaluate_check"
  /\ UNCHANGED <<FLAGS_expressions, expressions, next, state, cout, fatal>>

\* if (!status.ok()) LOG(QFATAL); std::cout << "Message from enclave: " <<
\* output.GetExtension(oak::evaluate_output).output_data(); ++iterator
CheckEvaluate ==
  /\ pc = "evaluate_check"
  /\ pc' = CheckEvaluateNext(status)
  /\ IF pc' = "for"
     THEN /\ cout' = Append(cout, [line |-> "Message from enclave",
                                   data |-> GetExtensionOutputData(output)])
          /\ next' = next + 1
          /\ UNCHANGED fatal
     ELSE /\ fatal' = IF pc' = "aborted" THEN EnterAndRunFailed ELSE fatal
          /\ UNCHANGED <<cout, next>>
  /\ UNCHANGED <<context, FLAGS_expressions, expressions, status, output, state, calls>>

\* status = manager->DestroyEnclave(client, final_input)
DestroyEnclave ==
  /\ pc = "destroy"
  /\ \E st \in Statuses :
       /\ status' = st
       /\ calls' = Append(calls, Call("DestroyEnclave", {}, << >>, 0, st = "ok"))
  /\ state' = "Destroyed"
  /\ pc' = "destroy_check"
  /\ UNCHANGED <<context, FLAGS_expressions, expressions, next, output, cout, fatal>>

\* if (!status.ok()) LOG(QFATAL) << "Destroy ... failed"; return 0
CheckDestroy ==
  /\ pc = "destroy_check"
  /\ pc' = CheckDestroyNext(status)
  /\ fatal' = IF pc' = "aborted" THEN DestroyFailed ELSE fatal
  /\ UNCHANGED <<context, FLAGS_expressions, expressions, next, status, output, state,
                 calls, cout>>

Next ==
  \/ ValidateFlags
  \/ SplitExpressions
  \/ GetManager
  \/ LoadEnclave
  \/ CheckLoad
  \/ GetClient
  \/ ProgramEnclave
  \/ CheckProgram
  \/ ForExpression
  \/ EvaluateExpression
  \/ CheckEvaluate
  \/ DestroyEnclave
  \/ CheckDestroy

Spec == Init /\ [][Next]_vars

\* main is one thread that runs to its end: while a step of main is
\* possible, one is taken (every call on the Asylo API returns).
FairSpec == Spec /\ WF_vars(Next)

\* ------------------------------------------------------------ properties
\* The run is over: main returned 0 ("done") or LOG(QFATAL) ended it.
Terminal == pc \in {"done", "aborted"}

IsProgramCall(c) == c.op = "EnterAndRun" /\ c.ext = {"initialise_input"}
IsEvaluateCall(c) == c.op = "EnterAndRun" /\ c.ext = {"evaluate_input"}
IsDestroyCall(c) == c.op = "DestroyEnclave"
\* The calls that cross into the enclave.
IsBoundaryCall(c) == c.op \in {"EnterAndRun", "DestroyEnclave"}

\* C1: every evaluate call that crosses the boundary is made while the
\* enclave is Programmed: a program call has returned OK before it and no
\* destroy has been issued before it; main is never about to evaluate in
\* another state.
C1_EvaluateOnlyWhenProgrammed ==
  /\ \A i \in DOMAIN calls :
       IsEvaluateCall(calls[i]) =>
         /\ calls[i].st = "Programmed"
         /\ \E j \in 1..(i - 1) : IsProgramCall(calls[j]) /\ calls[j].ok
         /\ \A j \in 1..(i - 1) : ~IsDestroyCall(calls[j])
  /\ pc = "evaluate" => state = "Programmed"

\* C1 witness: two evaluations have crossed the boundary.
C1_Witness ==
  Cardinality({i \in DOMAIN calls : IsEvaluateCall(calls[i])}) >= 2

C3_FailedProgramStillDestroyed ==
  \A i \in DOMAIN calls :
    (IsProgramCall(calls[i]) /\ ~calls[i].ok) =>
      /\ calls[i].st = "Loaded"
      /\ \A j \in (i + 1)..Len(calls) : ~IsEvaluateCall(calls[j])
      /\ Terminal => state = "Destroyed"

\* C4 (as claimed): every run in which the load succeeded performs a
\* destroy before it ends.
C4_DestroyBeforeRunEnds ==
  (Terminal /\ \E i \in DOMAIN calls : calls[i].op = "LoadEnclave" /\ calls[i].ok)
    => \E j \in DOMAIN calls : IsDestroyCall(calls[j])

\* C5 (as claimed): an output datum that has been printed was taken from a
\* response whose active payload is evaluate_output.  (After a print main
\* is at the head of the loop with the response still in output.)
C5_PrintedDatumIsEvaluateResult ==
  (pc = "for" /\ next > 1) => output.ext = {"evaluate_output"}

\* C7: at most one teardown call is made per run, it is the last call made
\* on the Asylo API, and no call is made while the enclave is Destroyed.
C7_AtMostOneTeardown ==
  /\ Cardinality({i \in DOMAIN calls : IsDestroyCall(calls[i])}) <= 1
  /\ \A i \in DOMAIN calls : IsDestroyCall(calls[i]) => i = Len(calls)
  /\ \A i \in DOMAIN calls : calls[i].st # "Destroyed"
  /\ Terminal /\ (\E i \in DOMAIN calls : IsDestroyCall(calls[i]))
       => state = "Destroyed"

\* C7 witness: a run that ended after a teardown that failed.
C7_Witness ==
  /\ Terminal
  /\ state = "Destroyed"
  /\ calls # << >>
  /\ IsDestroyCall(calls[Len(calls)])
  /\ ~calls[Len(calls)].ok

\* C8: with an empty --expressions the run makes no call at all (no manager,
\* load, program, evaluate or destroy), prints nothing, and ends with the
\* "Must supply a non-empty list of expressions" fatal line.
C8_EmptyListNoCalls ==
  FLAGS_expressions = << >> =>
    /\ calls = << >>
    /\ state = "Unloaded"
    /\ cout = << >>
    /\ pc \in {"validate", "aborted"}
    /\ pc = "aborted" => fatal = MustSupplyExpressions

\* C8 witness: the run with the empty flag has ended.
C8_Witness ==
  /\ FLAGS_expressions = << >>
  /\ pc = "aborted"
  /\ fatal = MustSupplyExpressions

\* C9 (as claimed, its last part): Destroyed is reachable directly from
\* Loaded: an enclave left Loaded by a failed program call can take the
\* destroy step.
C9_DestroyedReachableFromLoaded ==
  (state = "Loaded" /\ fatal = EnterAndRunFailed) => ENABLED DestroyEnclave

\* C9, the part that holds: the state only moves forward, one stage at a
\* time, and Destroyed is never left.
C9_ForwardOnly ==
  [][state' # state =>
       \/ state = "Unloaded" /\ state' = "Loaded"
       \/ state = "Loaded" /\ state' = "Programmed"
       \/ state = "Programmed" /\ state' = "Destroyed"]_vars

\* C10: no request crosses the boundary twice (one program call, one call
\* per expression position, one teardown), a boundary call that returned
\* an error is the last call of the run, and the boundary calls number at
\* most one program, one per expression and one teardown.
C10_NoRetry ==
  /\ \A i, j \in DOMAIN calls :
       (i < j /\ IsBoundaryCall(calls[i]) /\ IsBoundaryCall(calls[j])) =>
         <<calls[i].op, calls[i].ext, calls[i].n>>
           # <<calls[j].op, calls[j].ext, calls[j].n>>
  /\ \A i \in DOMAIN calls :
       (IsBoundaryCall(calls[i]) /\ ~calls[i].ok) => i = Len(calls)
  /\ \A i \in DOMAIN calls :
       IsEvaluateCall(calls[i]) => calls[i].n \in 1..Len(expressions)
  /\ Cardinality({i \in DOMAIN calls : IsBoundaryCall(calls[i])})
       <= Len(expressions) + 2

\* C10 witness: an evaluation after the first returned an error and the
\* run has ended.
C10_Witness ==
  /\ pc = "aborted"
  /\ calls # << >>
  /\ IsEvaluateCall(calls[Len(calls)])
  /\ calls[Len(calls)].n >= 2
  /\ ~calls[Len(calls)].ok

\* The "Message from enclave" lines printed so far.
Messages == {k \in DOMAIN cout : cout[k].line = "Message from enclave"}

\* A comma-separated list written back as one string.
RECURSIVE JoinComma(_)
JoinComma(seq) ==
  IF Len(seq) = 0 THEN << >>
  ELSE IF Len(seq) = 1 THEN seq[1]
  ELSE seq[1] \o <<",">> \o JoinComma(Tail(seq))

\* C11: a LoadEnclave or EnterAndRun that returned an error is the last
\* call of the run (no program or evaluate call follows for the remaining
\* expressions), a datum is printed only for an evaluation that returned
\* OK, and a run with a failed call ends aborted with a fatal line, never
\* with return 0.
C11_StopAtFirstError ==
  /\ \A i \in DOMAIN calls :
       (calls[i].op \in {"LoadEnclave", "EnterAndRun"} /\ ~calls[i].ok)
         => i = Len(calls)
  /\ Cardinality(Messages)
       <= Cardinality({i \in DOMAIN calls : calls[i].op = "EnterAndRun"
                                             /\ calls[i].n >= 1 /\ calls[i].ok})
  /\ (Terminal /\ \E i \in DOMAIN calls : ~calls[i].ok)
       => (pc = "aborted" /\ fatal # "none")

\* C11 witness: the first of several evaluations failed and the run ended.
C11_Witness ==
  /\ pc = "aborted"
  /\ Len(expressions) >= 2
  /\ calls # << >>
  /\ calls[Len(calls)].op = "EnterAndRun"
  /\ calls[Len(calls)].n = 1
  /\ ~calls[Len(calls)].ok
  /\ Messages = {}

\* C12: an EnterAndRun carrying the script is issued only while the enclave
\* is Loaded, so none is sent to an Unloaded, Programmed or Destroyed
\* enclave, and at most one program call returns OK in a run.
C12_ProgramOnlyWhenLoaded ==
  /\ \A i \in DOMAIN calls :
       (calls[i].op = "EnterAndRun" /\ "initialise_input" \in calls[i].ext)
         => calls[i].st = "Loaded"
  /\ pc = "program" => state = "Loaded"
  /\ Cardinality({i \in DOMAIN calls :
                    /\ calls[i].op = "EnterAndRun"
                    /\ "initialise_input" \in calls[i].ext
                    /\ calls[i].ok}) <= 1

\* C12 witness: the enclave has been programmed and evaluations followed.
C12_Witness ==
  /\ state = "Programmed"
  /\ \E i \in DOMAIN calls : IsProgramCall(calls[i]) /\ calls[i].ok
  /\ \E i \in DOMAIN calls : IsEvaluateCall(calls[i])

\* C13: every EnclaveInput passed to EnterAndRun has exactly one extension
\* set: initialise_input on the program call, evaluate_input on each
\* evaluation; the teardown passes an EnclaveFinal with none of them.
C13_OnePayloadPerRequest ==
  \A i \in DOMAIN calls :
    /\ calls[i].op = "EnterAndRun" =>
         /\ Cardinality(calls[i].ext) = 1
         /\ calls[i].n = 0 => calls[i].ext = {"initialise_input"}
         /\ calls[i].n >= 1 => calls[i].ext = {"evaluate_input"}
    /\ calls[i].op = "DestroyEnclave" => calls[i].ext = {}

\* C13 witness: a program call, an evaluation and a teardown have been made.
C13_Witness ==
  /\ \E i \in DOMAIN calls : calls[i].op = "EnterAndRun" /\ calls[i].n = 0
  /\ \E i \in DOMAIN calls : calls[i].op = "EnterAndRun" /\ calls[i].n >= 1
  /\ \E i \in DOMAIN calls : calls[i].op = "DestroyEnclave"

\* C14: after a LoadEnclave that failed, or an unavailable manager, the
\* enclave is still Unloaded, no call follows (no program, evaluate or
\* destroy), and the failed load is reported with the "Load failed" fatal
\* line; the enclave leaves Unloaded only through a LoadEnclave that
\* returned OK.
C14_FailedLoadEndsRun ==
  /\ \A i \in DOMAIN calls :
       (calls[i].op \in {"LoadEnclave", "Instance"} /\ ~calls[i].ok) =>
         /\ i = Len(calls)
         /\ state = "Unloaded"
         /\ \A j \in DOMAIN calls : ~IsBoundaryCall(calls[j])
  /\ (Terminal /\ calls # << >> /\ calls[Len(calls)].op = "LoadEnclave"
        /\ ~calls[Len(calls)].ok) => fatal = LoadFailed
  /\ fatal = LoadFailed => state = "Unloaded"
  /\ state # "Unloaded" =>
       \E i \in DOMAIN calls : calls[i].op = "LoadEnclave" /\ calls[i].ok

\* C14 witness: the load failed and the run has ended.
C14_Witness ==
  /\ pc = "aborted"
  /\ fatal = LoadFailed
  /\ calls[Len(calls)].op = "LoadEnclave"

\* C15: a run that returns 0 has made exactly the calls Configure,
\* Instance, LoadEnclave, GetClient, one program call, one evaluation per
\* piece of the comma-separated flag in the order of the flag, and one
\* DestroyEnclave, all OK; it has printed one datum per evaluation and the
\* enclave is Destroyed.  Each datum is printed right after its evaluation
\* returns, so the data appear in the order of the evaluations.
C15_HappyPathOrder ==
  /\ pc = "done" =>
       LET n == Len(expressions) IN
       /\ Len(calls) = n + 6
       /\ calls[1].op = "Configure"
       /\ calls[2].op = "Instance"
       /\ calls[3].op = "LoadEnclave"
       /\ calls[4].op = "GetClient"
       /\ IsProgramCall(calls[5])
       /\ \A k \in 1..n : /\ IsEvaluateCall(calls[5 + k])
                          /\ calls[5 + k].n = k
                          /\ calls[5 + k].arg = expressions[k]
       /\ JoinComma([k \in 1..n |-> calls[5 + k].arg]) = FLAGS_expressions
       /\ IsDestroyCall(calls[n + 6])
       /\ \A i \in DOMAIN calls : calls[i].ok
       /\ Len(cout) = n + 1
       /\ cout[1].line = "Loading"
       /\ Messages = 2..(n + 1)
       /\ state = "Destroyed"
  /\ (pc = "for" /\ next > 1) =>
       /\ Len(cout) = next
       /\ cout[next].data = GetExtensionOutputData(output)
       /\ "evaluate_output" \in output.ext => cout[next].data = output.output_data

\* C15 witness: a run over two different expressions has returned 0.
C15_Witness ==
  /\ pc = "done"
  /\ Len(expressions) >= 2
  /\ expressions[1] # expressions[2]

\* C16: the k-th evaluation enters an enclave that has executed the program
\* call and the evaluations 1..k-1, in that order, and nothing else; every
\* call recorded before it has returned.
C16_IssuanceOrder ==
  \A i \in DOMAIN calls :
    (calls[i].op = "EnterAndRun" /\ calls[i].n >= 1) =>
      /\ calls[i].seen =
           [j \in 1..calls[i].n |->
              IF j = 1 THEN [ext |-> {"initialise_input"}, n |-> 0]
              ELSE [ext |-> {"evaluate_input"}, n |-> j - 1]]
      /\ \A j \in 1..(i - 1) : calls[j].ok

\* C16 witness: a third evaluation has been issued.
C16_Witness ==
  \E i \in DOMAIN calls : calls[i].op = "EnterAndRun" /\ calls[i].n >= 3

\* C17: main returns 0 only when the load, the program call, an evaluation
\* of every expression and the teardown all returned OK; a run in which a
\* call returned an error never returns 0.
C17_ExitZeroOnlyOnSuccess ==
  /\ pc = "done" =>
       /\ fatal = "none"
       /\ \A i \in DOMAIN calls : calls[i].ok
       /\ \E i \in DOMAIN calls : calls[i].op = "LoadEnclave" /\ calls[i].ok
       /\ \E i \in DOMAIN calls : IsProgramCall(calls[i]) /\ calls[i].ok
       /\ Len(expressions) >= 1
       /\ \A k \in 1..Len(expressions) :
            \E i \in DOMAIN calls :
              IsEvaluateCall(calls[i]) /\ calls[i].n = k /\ calls[i].ok
       /\ \E i \in DOMAIN calls : IsDestroyCall(calls[i]) /\ calls[i].ok
  /\ (\E i \in DOMAIN calls : ~calls[i].ok) => pc # "done"

\* C17 witness: main has returned 0.
C17_Witness ==
  /\ pc = "done"
  /\ fatal = "none"

\* C18: every run ends, with return 0 or with a fatal abort, and at no
\* time has it made more than one program call, one evaluation per
\* expression and one teardown.
C18_Terminates ==
  /\ <>Terminal
  /\ [](/\ Cardinality({i \in DOMAIN calls :
                          calls[i].op = "EnterAndRun" /\ calls[i].n = 0}) <= 1
        /\ Cardinality({i \in DOMAIN calls :
                          calls[i].op = "EnterAndRun" /\ calls[i].n >= 1})
             <= Len(expressions)
        /\ Cardinality({i \in DOMAIN calls : IsDestroyCall(calls[i])}) <= 1)

\* C18 witness: a run over several expressions has ended having made every
\* one of its boundary calls.
C18_Witness ==
  /\ Terminal
  /\ Len(expressions) >= 2
  /\ Cardinality({i \in DOMAIN calls : IsBoundaryCall(calls[i])})
       = Len(expressions) + 2

====
